---- MODULE Spec2Model ----
(***************************************************************************)
(* A model of the RISC-V assembly front end in src/src/riscv/parser.rs:    *)
(*   extract_data_objects      the fold over the statements that builds    *)
(*                             the map from object name to bytes,          *)
(*   extract_label_references  the set of names instructions refer to,     *)
(*   unescape_string           the decoding of a quoted string token.      *)
(* Each function is a state machine of its own (Spec, SpecWord, SpecRefs,  *)
(* SpecUnescape); a variable another function does not use keeps its       *)
(* initial value there.                                                    *)
(***************************************************************************)
EXTENDS Integers, Sequences, FiniteSets

VARIABLES
    statements,     \* the statements `for s in statements` has taken so far
    current_label,  \* extract_data_objects: Option<&str>
    objects,        \* extract_data_objects: BTreeMap<String, Option<Vec<u8>>>
    returned,       \* the value a function returned (None while it runs)
    refs,           \* extract_label_references: the set collected so far
    s,              \* unescape_string: the token, quotes included
    chars,          \* unescape_string: what the iterator `chars` still holds
    result,         \* unescape_string: the vector `result`
    overflow_checks,\* the build: TRUE when u8 arithmetic panics on overflow
    pc,             \* "run", "returned" or "panicked"
    panic           \* what aborted the run (None while it has not)

vars == <<statements, current_label, objects, returned, refs, s, chars,
          result, overflow_checks, pc, panic>>

----------------------------------------------------------------------------
(* Bounds of the model. *)

\* Statements of one run of extract_data_objects.
MaxLen == 5
\* Arguments of one .word directive in SpecWord.
MaxWordArgs == 2
\* Statements of one run of extract_label_references.
MaxRefLen == 3
\* Characters between the quotes of the token given to unescape_string.
MaxInterior == 4

----------------------------------------------------------------------------
(* Option<T>, and the data model of lines 14-35. *)

None == [some |-> FALSE]
Some(v) == [some |-> TRUE, v |-> v]

\* An i64 n is written as two limbs, n = hi * 65536 + lo with lo in 0..65535,
\* because TLC's integers are 32 bits wide.
I64(hi, lo) == [hi |-> hi, lo |-> lo]

Number(n) == [ctag |-> "Number", n |-> n]
HiDataRef(sym) == [ctag |-> "HiDataRef", sym |-> sym]
LoDataRef(sym) == [ctag |-> "LoDataRef", sym |-> sym]

Register(r) == [tag |-> "Register", reg |-> r]
RegOffset(r, c) == [tag |-> "RegOffset", reg |-> r, c |-> c]
StringLiteral(bytes) == [tag |-> "StringLiteral", lit |-> bytes]
Constant(c) == [tag |-> "Constant", c |-> c]
Symbol(name) == [tag |-> "Symbol", name |-> name]
Difference(l, r) == [tag |-> "Difference", left |-> l, right |-> r]

Label(l) == [stag |-> "Label", name |-> l, args |-> <<>>]
Directive(d, args) == [stag |-> "Directive", name |-> d, args |-> args]
Instruction(i, args) == [stag |-> "Instruction", name |-> i, args |-> args]

----------------------------------------------------------------------------
(* extract_data_objects, lines 130-191. *)

\* The arm of line 140: (".type", [Symbol(name), Symbol(kind)]) if kind == "@object".
IsTypeObject(st) ==
    /\ st.stag = "Directive"
    /\ st.name = ".type"
    /\ Len(st.args) = 2
    /\ st.args[1].tag = "Symbol"
    /\ st.args[2].tag = "Symbol"
    /\ st.args[2].name = "@object"

\* The arm of line 145: (".ascii" | ".asciz", [StringLiteral(data)]).
IsAscii(st) ==
    /\ st.stag = "Directive"
    /\ ~IsTypeObject(st)
    /\ st.name \in {".ascii", ".asciz"}
    /\ Len(st.args) = 1
    /\ st.args[1].tag = "StringLiteral"

\* The arm of line 154: (".word", data), tried after the two above.
IsWord(st) ==
    /\ st.stag = "Directive"
    /\ ~IsTypeObject(st)
    /\ ~IsAscii(st)
    /\ st.name = ".word"

\* The arms `_ => {}` of lines 177 and 179.
IsOther(st) ==
    /\ st.stag # "Label"
    /\ ~IsTypeObject(st)
    /\ ~IsAscii(st)
    /\ ~IsWord(st)

\* A faulty variant of InsertNone: the entry is inserted only when the key is absent.
InsertIfAbsent(objs, name) ==
    [k \in DOMAIN objs \cup {name} |->
        IF k \in DOMAIN objs THEN objs[k] ELSE None]

\* objects.insert(name.clone(), None), line 143: BTreeMap::insert replaces
\* the value of a key that is present.
InsertNone(objs, name) ==
    [k \in DOMAIN objs \cup {name} |-> IF k = name THEN None ELSE objs[k]]

\* A faulty variant of Extend: the new bytes go in front of the old ones.
ExtendPrepends(entry, data) ==
    IF entry.some THEN Some(data \o entry.v) ELSE Some(data)

\* A faulty variant of Extend: the new bytes replace the old ones.
ExtendReplaces(entry, data) == Some(data)

\* Lines 147-151: d.extend(data) on Some(d), Some(data.clone()) on None.
Extend(entry, data) ==
    IF entry.some THEN Some(entry.v \o data) ELSE Some(data)

\* `*n as u32`, line 161: the low 32 bits, again as two 16-bit limbs.
AsU32(n) == [hi |-> n.hi % 65536, lo |-> n.lo]

\* u >> 8 on a u32.
Shr8(u) == [hi |-> u.hi \div 256, lo |-> (u.hi % 256) * 256 + (u.lo \div 256)]

\* u >> k for the shifts of lines 164-166, k in {0, 8, 16, 24}.
RECURSIVE Shr(_, _)
Shr(u, k) == IF k = 0 THEN u ELSE Shr(Shr8(u), k - 8)

\* (u & 0xff) as u8.
AndFF(u) == u.lo % 256

\* A faulty variant of WordArg: the bytes of a Number most significant first.
WordArgBigEndian(x) ==
    IF x.tag = "Constant" /\ x.c.ctag = "Number"
    THEN LET n == AsU32(x.c.n)
         IN  <<AndFF(Shr(n, 24)), AndFF(Shr(n, 16)), AndFF(Shr(n, 8)), AndFF(n)>>
    ELSE <<0, 0, 0, 0>>

\* The closure of lines 159-172.
WordArg(x) ==
    IF x.tag = "Constant" /\ x.c.ctag = "Number"
    THEN LET n == AsU32(x.c.n)
         IN  <<AndFF(n), AndFF(Shr(n, 8)), AndFF(Shr(n, 16)), AndFF(Shr(n, 24))>>
    ELSE <<0, 0, 0, 0>>

\* data.iter().flat_map(..).collect::<Vec<u8>>(), lines 158-173.
RECURSIVE WordData(_)
WordData(data) ==
    IF data = <<>> THEN <<>> ELSE WordArg(Head(data)) \o WordData(Tail(data))

\* A faulty variant of EntryIsNone: the assertion of line 156 is compiled out.
EntryUnchecked(entry) == TRUE

\* The condition of assert!(entry.is_none()), line 156.
EntryIsNone(entry) == ~entry.some

\* The variables the other functions own.
OthersOfData == <<refs, s, chars, result, overflow_checks>>

\* Statement::Label(l), lines 135-137.
OnLabel(st) ==
    /\ pc = "run"
    /\ st.stag = "Label"
    /\ statements' = Append(statements, st)
    /\ current_label' = Some(st.name)
    /\ UNCHANGED <<objects, returned, pc, panic, OthersOfData>>

\* The .type arm, lines 140-144.
OnTypeObject(st) ==
    /\ pc = "run"
    /\ IsTypeObject(st)
    /\ statements' = Append(statements, st)
    /\ objects' = InsertNone(objects, st.args[1].name)
    /\ UNCHANGED <<current_label, returned, pc, panic, OthersOfData>>

\* The .ascii/.asciz arm, lines 145-153. current_label.unwrap() panics when
\* no Label has been seen.
OnAscii(st) ==
    /\ pc = "run"
    /\ IsAscii(st)
    /\ statements' = Append(statements, st)
    /\ IF ~current_label.some
       THEN /\ pc' = "panicked"
            /\ panic' = Some([kind |-> "unwrap_none", line |-> 146])
            /\ UNCHANGED objects
       ELSE /\ objects' =
                IF current_label.v \in DOMAIN objects
                THEN [objects EXCEPT ![current_label.v] =
                          Extend(objects[current_label.v], st.args[1].lit)]
                ELSE objects
            /\ UNCHANGED <<pc, panic>>
    /\ UNCHANGED <<current_label, returned, OthersOfData>>

\* The .word arm, lines 154-176. current_label.unwrap() panics when no Label
\* has been seen, assert!(entry.is_none()) when the object holds content.
OnWord(st) ==
    /\ pc = "run"
    /\ IsWord(st)
    /\ statements' = Append(statements, st)
    /\ IF ~current_label.some
       THEN /\ pc' = "panicked"
            /\ panic' = Some([kind |-> "unwrap_none", line |-> 155])
            /\ UNCHANGED objects
       ELSE IF current_label.v \notin DOMAIN objects
       THEN UNCHANGED <<objects, pc, panic>>
       ELSE IF ~EntryIsNone(objects[current_label.v])
       THEN /\ pc' = "panicked"
            /\ panic' = Some([kind |-> "assert_entry_is_none", line |-> 156])
            /\ UNCHANGED objects
       ELSE /\ objects' = [objects EXCEPT ![current_label.v] =
                               Some(WordData(st.args))]
            /\ UNCHANGED <<pc, panic>>
    /\ UNCHANGED <<current_label, returned, OthersOfData>>

\* Any other directive and any instruction, lines 177 and 179.
OnOther(st) ==
    /\ pc = "run"
    /\ IsOther(st)
    /\ statements' = Append(statements, st)
    /\ UNCHANGED <<current_label, objects, returned, pc, panic, OthersOfData>>

\* The keys of the map in the order of BTreeMap's iterator: names here are
\* single capital letters, and "X" < "Y" as strings.
KeyOrder == <<"X", "Y">>

\* The first key, in iteration order, whose value is None.
FirstNone(objs) ==
    LET idx == {i \in 1..Len(KeyOrder) :
                   KeyOrder[i] \in DOMAIN objs /\ ~objs[KeyOrder[i]].some}
    IN  KeyOrder[CHOOSE i \in idx : \A j \in idx : i <= j]

\* A faulty variant of Finalize: an object without content is left out of the
\* result instead of aborting the run.
FinalizeSkipsNone ==
    /\ pc = "run"
    /\ pc' = "returned"
    /\ returned' = Some([k \in {j \in DOMAIN objects : objects[j].some} |->
                            objects[k].v])
    /\ UNCHANGED <<panic, statements, current_label, objects, OthersOfData>>

\* Lines 182-190: the loop is over; every value is unwrapped, and the first
\* None panics with "Label for announced object {k} not found.".
Finalize ==
    /\ pc = "run"
    /\ IF \E k \in DOMAIN objects : ~objects[k].some
       THEN /\ pc' = "panicked"
            /\ panic' = Some([kind |-> "object_not_found", line |-> 187,
                              k |-> FirstNone(objects)])
            /\ UNCHANGED returned
       ELSE /\ pc' = "returned"
            /\ returned' = Some([k \in DOMAIN objects |-> objects[k].v])
            /\ UNCHANGED panic
    /\ UNCHANGED <<statements, current_label, objects, OthersOfData>>


----------------------------------------------------------------------------
(* The runs of extract_data_objects that are explored. *)

\* The statements a run draws from: two names, both fill directives, and
\* statements that fall through to the arms `_ => {}`.
Stmts ==
    { Label("X"), Label("Y"),
      Directive(".type", <<Symbol("X"), Symbol("@object")>>),
      Directive(".type", <<Symbol("Y"), Symbol("@object")>>),
      Directive(".ascii", <<StringLiteral(<<65, 66>>)>>),
      Directive(".asciz", <<StringLiteral(<<67>>)>>),
      Directive(".word", <<Constant(Number(I64(0, 1)))>>),
      Directive(".word", <<Symbol("foo"), Constant(Number(I64(-1, 65534)))>>),
      Directive(".type", <<Symbol("X"), Symbol("@function")>>),
      Directive(".ascii", <<StringLiteral(<<65, 66>>), StringLiteral(<<67>>)>>),
      Instruction("jal", <<Symbol("X")>>) }

\* The state at line 133, before the first statement.
Init ==
    /\ statements = <<>>
    /\ current_label = None
    /\ objects = [k \in {} |-> None]
    /\ returned = None
    /\ refs = {}
    /\ s = <<>>
    /\ chars = <<>>
    /\ result = <<>>
    /\ overflow_checks = FALSE
    /\ pc = "run"
    /\ panic = None

\* One more statement of the slice, within the bound.
More == Len(statements) < MaxLen

Next ==
    \/ \E st \in Stmts : More /\ OnLabel(st)
    \/ \E st \in Stmts : More /\ OnTypeObject(st)
    \/ \E st \in Stmts : More /\ OnAscii(st)
    \/ \E st \in Stmts : More /\ OnWord(st)
    \/ \E st \in Stmts : More /\ OnOther(st)
    \/ Finalize

Spec == Init /\ [][Next]_vars

----------------------------------------------------------------------------
(* The runs of extract_data_objects that are explored for the encoding of  *)
(* .word: an announcement of X and a label X in either order, two of one   *)
(* of them, and then one .word directive with any arguments.               *)

\* The arguments a .word directive draws from: 1, 0x01020304, -1, 2^32 + 5
\* and -2^40 as Number, and one argument of every other shape.
WordArgs ==
    { Constant(Number(I64(0, 1))),
      Constant(Number(I64(258, 772))),
      Constant(Number(I64(-1, 65535))),
      Constant(Number(I64(65536, 5))),
      Constant(Number(I64(-16777216, 0))),
      Constant(HiDataRef("foo")),
      Constant(LoDataRef("foo")),
      Symbol("foo"),
      RegOffset(Register(10), Number(I64(0, 7))),
      StringLiteral(<<65>>),
      Register(5),
      Difference("a", "b") }

\* The argument lists of at most MaxWordArgs arguments.
WordArgLists == UNION {[1..k -> WordArgs] : k \in 0..MaxWordArgs}

\* The statements a run of SpecWord may take next.
WordRunStmts ==
    IF Len(statements) < 2
    THEN {Label("X"), Directive(".type", <<Symbol("X"), Symbol("@object")>>)}
    ELSE IF Len(statements) = 2
    THEN {Directive(".word", a) : a \in WordArgLists}
    ELSE {}

NextWord ==
    \/ \E st \in WordRunStmts : OnLabel(st)
    \/ \E st \in WordRunStmts : OnTypeObject(st)
    \/ \E st \in WordRunStmts : OnWord(st)
    \/ Finalize

SpecWord == Init /\ [][NextWord]_vars

----------------------------------------------------------------------------
(* extract_label_references, lines 111-128. *)

\* A faulty variant of ArgRef: a %lo() reference is not collected.
ArgRefWithoutLo(arg) ==
    IF arg.tag = "Symbol" THEN {arg.name}
    ELSE IF arg.tag \in {"RegOffset", "Constant"} /\ arg.c.ctag = "HiDataRef"
    THEN {arg.c.sym}
    ELSE {}

\* The closure of lines 116-124 on one argument that is not a Difference: the
\* names it yields (none for None, one for Some).
ArgRef(arg) ==
    IF arg.tag \in {"Register", "StringLiteral"} THEN {}
    ELSE IF arg.tag = "Symbol" THEN {arg.name}
    ELSE IF arg.tag \in {"RegOffset", "Constant"}
    THEN IF arg.c.ctag = "Number" THEN {} ELSE {arg.c.sym}
    ELSE {}

\* Argument::Difference(_, _) => todo!(), line 123.
HitsTodo(args) == \E j \in 1..Len(args) : args[j].tag = "Difference"

\* The variables the other functions own.
OthersOfRefs == <<current_label, objects, s, chars, result, overflow_checks>>

\* Line 115: a Label or a Directive yields None.
RefSkip(st) ==
    /\ pc = "run"
    /\ st.stag \in {"Label", "Directive"}
    /\ statements' = Append(statements, st)
    /\ UNCHANGED <<refs, returned, pc, panic, OthersOfRefs>>

\* Lines 116-124: the arguments of an Instruction are filtered into the set;
\* a Difference among them aborts the run.
RefInstruction(st) ==
    /\ pc = "run"
    /\ st.stag = "Instruction"
    /\ statements' = Append(statements, st)
    /\ IF HitsTodo(st.args)
       THEN /\ pc' = "panicked"
            /\ panic' = Some([kind |-> "todo", line |-> 123])
            /\ UNCHANGED refs
       ELSE /\ refs' = refs \cup UNION {ArgRef(st.args[j]) : j \in 1..Len(st.args)}
            /\ UNCHANGED <<pc, panic>>
    /\ UNCHANGED <<returned, OthersOfRefs>>

\* .collect(), line 127: the iterator is exhausted and the set is returned.
RefCollect ==
    /\ pc = "run"
    /\ pc' = "returned"
    /\ returned' = Some(refs)
    /\ UNCHANGED <<statements, refs, panic, OthersOfRefs>>

\* The statements a run of extract_label_references draws from.
RefStmts ==
    { Label("bar"),
      Directive(".word", <<Symbol("foo")>>),
      Directive(".word", <<Constant(HiDataRef("hi")), RegOffset(Register(1), LoDataRef("lo"))>>),
      Instruction("jal", <<Symbol("bar")>>),
      Instruction("lui", <<Register(10), Constant(HiDataRef("hi"))>>),
      Instruction("addi", <<Register(10), Register(10), Constant(LoDataRef("lo"))>>),
      Instruction("lw", <<Register(10), RegOffset(Register(11), LoDataRef("off"))>>),
      Instruction("sw", <<Register(10), RegOffset(Register(2), Number(I64(0, 8)))>>),
      Instruction("li", <<Register(10), Constant(Number(I64(0, 5))), StringLiteral(<<65>>)>>),
      Instruction("la", <<Register(10), Difference("bar", "foo")>>) }

\* One more statement of the slice, within the bound.
MoreRefs == Len(statements) < MaxRefLen

NextRefs ==
    \/ \E st \in RefStmts : MoreRefs /\ RefSkip(st)
    \/ \E st \in RefStmts : MoreRefs /\ RefInstruction(st)
    \/ RefCollect

SpecRefs == Init /\ [][NextRefs]_vars

----------------------------------------------------------------------------
(* unescape_string, lines 193-224. Characters are their code points. *)

\* '"', line 195.
Quote == 34
\* '\\', line 199.
Backslash == 92
\* b'0', lines 203-205.
ByteZero == 48

\* `c as u8`: the low eight bits.
AsU8(c) == c % 256

\* next.is_ascii_digit(), line 201: '0' to '9'.
IsAsciiDigit(c) == c \in 48..57

\* A u8 result that did not overflow.
FitsU8(r) == r \in 0..255

\* `x as u8 - b'0'`, lines 203-205, before the overflow check.
DigitOf(c) == AsU8(c) - ByteZero

\* A faulty variant of Octal: the digits are weighted as decimal ones.
OctalAsDecimal(n, nn, nnn) ==
    LET m1 == nn * 10
        a1 == nnn + AsU8(m1)
        m2 == n * 100
        a2 == AsU8(a1) + AsU8(m2)
    IN  [overflow |-> ~(FitsU8(m1) /\ FitsU8(a1) /\ FitsU8(m2) /\ FitsU8(a2)),
         v |-> AsU8(a2)]

\* nnn + nn * 8 + n * 64 on u8, line 206: whether an operation overflowed,
\* and the wrapped value.
Octal(n, nn, nnn) ==
    LET m1 == nn * 8
        a1 == nnn + AsU8(m1)
        m2 == n * 64
        a2 == AsU8(a1) + AsU8(m2)
    IN  [overflow |-> ~(FitsU8(m1) /\ FitsU8(a1) /\ FitsU8(m2) /\ FitsU8(a2)),
         v |-> AsU8(a2)]

\* The match of lines 210-217, then `as u8`.
EscapeChar(next) ==
    AsU8(CASE next = 110 -> 10
           [] next = 114 -> 13
           [] next = 116 -> 9
           [] next = 98 -> 8
           [] next = 102 -> 12
           [] OTHER -> next)

\* The variables the other functions own.
OthersOfUnescape == <<statements, current_label, objects, refs>>

\* A panic of unescape_string at a line.
UnescapePanics(kind, line) ==
    /\ pc' = "panicked"
    /\ panic' = Some([kind |-> kind, line |-> line])
    /\ UNCHANGED <<chars, result>>

\* result.push(b) after `taken` characters were taken from the iterator.
UnescapePushes(b, taken) ==
    /\ result' = Append(result, b)
    /\ chars' = SubSeq(chars, taken + 1, Len(chars))
    /\ UNCHANGED <<pc, panic>>

\* Lines 194-197: the two assertions, then the iterator over the interior.
UnescapeBegin ==
    /\ pc = "start"
    /\ IF Len(s) < 2
       THEN /\ pc' = "panicked"
            /\ panic' = Some([kind |-> "assert", line |-> 194])
            /\ UNCHANGED <<chars, result>>
       ELSE IF ~(s[1] = Quote /\ s[Len(s)] = Quote)
       THEN /\ pc' = "panicked"
            /\ panic' = Some([kind |-> "assert", line |-> 195])
            /\ UNCHANGED <<chars, result>>
       ELSE /\ pc' = "loop"
            /\ chars' = SubSeq(s, 2, Len(s) - 1)
            /\ result' = <<>>
            /\ UNCHANGED panic
    /\ UNCHANGED <<s, overflow_checks, returned, OthersOfUnescape>>

\* One iteration of the loop of lines 198-222.
UnescapeStep ==
    /\ pc = "loop"
    /\ chars # <<>>
    /\ LET c == chars[1] IN
       IF c # Backslash THEN UnescapePushes(AsU8(c), 1)
       ELSE IF Len(chars) < 2 THEN UnescapePanics("unwrap_none", 200)
       ELSE LET next == chars[2] IN
       IF IsAsciiDigit(next)
       THEN IF Len(chars) < 3 THEN UnescapePanics("unwrap_none", 204)
            ELSE IF overflow_checks /\ ~FitsU8(DigitOf(chars[3]))
            THEN UnescapePanics("overflow", 204)
            ELSE IF Len(chars) < 4 THEN UnescapePanics("unwrap_none", 205)
            ELSE IF overflow_checks /\ ~FitsU8(DigitOf(chars[4]))
            THEN UnescapePanics("overflow", 205)
            ELSE LET o == Octal(DigitOf(next), AsU8(DigitOf(chars[3])),
                                AsU8(DigitOf(chars[4])))
                 IN  IF overflow_checks /\ o.overflow
                     THEN UnescapePanics("overflow", 206)
                     ELSE UnescapePushes(o.v, 4)
       ELSE IF next = 120 THEN UnescapePanics("todo", 208)
       ELSE UnescapePushes(EscapeChar(next), 2)
    /\ UNCHANGED <<s, overflow_checks, returned, OthersOfUnescape>>

\* Line 223: the iterator is exhausted and `result` is returned.
UnescapeReturn ==
    /\ pc = "loop"
    /\ chars = <<>>
    /\ pc' = "returned"
    /\ returned' = Some(result)
    /\ UNCHANGED <<s, chars, result, overflow_checks, panic, OthersOfUnescape>>

\* The characters between the quotes: '\\', '/', the digits 0 3 4 7 9, and
\* the letters A n x.
InteriorChars == {92, 47, 48, 51, 52, 55, 57, 65, 110, 120}

\* The interiors of at most MaxInterior characters.
Interiors == UNION {[1..k -> InteriorChars] : k \in 0..MaxInterior}

\* The tokens unescape_string is called on: the quoted interiors, and the
\* short tokens that break one of the assertions.
Tokens ==
    {<<Quote>> \o w \o <<Quote>> : w \in Interiors}
        \cup {<<>>, <<Quote>>, <<65>>, <<Quote, 65>>, <<65, Quote>>, <<65, 65>>}

\* The state at line 194, for any token and either build.
InitUnescape ==
    /\ statements = <<>>
    /\ current_label = None
    /\ objects = [k \in {} |-> None]
    /\ returned = None
    /\ refs = {}
    /\ s \in Tokens
    /\ chars = <<>>
    /\ result = <<>>
    /\ overflow_checks \in BOOLEAN
    /\ pc = "start"
    /\ panic = None

NextUnescape ==
    \/ UnescapeBegin
    \/ UnescapeStep
    \/ UnescapeReturn

SpecUnescape == InitUnescape /\ [][NextUnescape]_vars

----------------------------------------------------------------------------
(* What the properties below read off the statements taken so far. None of *)
(* it is used by the model of the code.                                    *)

\* The object names of Stmts.
Names == {"X", "Y"}

MaxOf(S) == CHOOSE m \in S : \A k \in S : k <= m
MinOf(S) == CHOOSE m \in S : \A k \in S : m <= k

\* A step that takes one more statement, and the statement it takes.
Step == pc = "run" /\ Len(statements') = Len(statements) + 1
Taken == statements'[Len(statements')]

\* st is the directive `.type n, @object`.
Announces(st, n) == st = Directive(".type", <<Symbol(n), Symbol("@object")>>)

\* st is a .word directive; st is an .ascii/.asciz directive with one string.
IsWordDirective(st) == st.stag = "Directive" /\ st.name = ".word"
IsAsciiDirective(st) ==
    /\ st.stag = "Directive"
    /\ st.name \in {".ascii", ".asciz"}
    /\ Len(st.args) = 1
    /\ st.args[1].tag = "StringLiteral"

\* The most recent Label statement before statement i, if there is one.
LabelBefore(i) ==
    LET ls == {j \in 1..(i - 1) : statements[j].stag = "Label"}
    IN  IF ls = {} THEN None ELSE Some(statements[MaxOf(ls)].name)

\* The places before statement i where n is announced; 0 stands for none.
AnnouncesBefore(n, i) == {j \in 1..(i - 1) : Announces(statements[j], n)}
FirstAnnounce(n) == MinOf(AnnouncesBefore(n, Len(statements) + 1) \cup {Len(statements) + 1})
LastAnnounce(n) == MaxOf(AnnouncesBefore(n, Len(statements) + 1) \cup {0})

\* The names announced by the statements taken.
Announced == {n \in Names : AnnouncesBefore(n, Len(statements) + 1) # {}}

\* Statement i is a .word directive taken while the current label names the
\* announced object n.
WordOn(i, n) ==
    /\ IsWordDirective(statements[i])
    /\ LabelBefore(i) = Some(n)
    /\ AnnouncesBefore(n, i) # {}

\* The .ascii/.asciz directives after statement `from` taken while the
\* current label is n, and their bytes in source order.
AsciiAfter(n, from) ==
    {i \in (from + 1)..Len(statements) :
        IsAsciiDirective(statements[i]) /\ LabelBefore(i) = Some(n)}

RECURSIVE ConcatData(_)
ConcatData(idx) ==
    IF idx = {} THEN <<>>
    ELSE statements[MinOf(idx)].args[1].lit \o ConcatData(idx \ {MinOf(idx)})

NoWord == \A i \in 1..Len(statements) : ~IsWordDirective(statements[i])

----------------------------------------------------------------------------
(* C1: re-declaration of a registered object. *)

\* C1, as stated: when `.type NAME, @object` is processed and NAME is already
\* registered, the content held by NAME is the same after the directive as
\* before it.
C1_ContentKept ==
    [][\A n \in Names :
          (Step /\ Announces(Taken, n) /\ n \in DOMAIN objects)
              => (n \in DOMAIN objects' /\ objects'[n] = objects[n])]_vars

\* C1, amended: when `.type NAME, @object` is processed and NAME is already
\* registered, NAME stays registered and holds no content afterwards,
\* whatever it held before; the other objects and the current label are
\* unchanged and the run does not abort.
C1_ContentReset ==
    [][\A n \in Names :
          (Step /\ Announces(Taken, n) /\ n \in DOMAIN objects)
              => /\ pc' = "run"
                 /\ DOMAIN objects' = DOMAIN objects
                 /\ objects'[n] = None
                 /\ \A k \in DOMAIN objects \ {n} : objects'[k] = objects[k]
                 /\ current_label' = current_label]_vars

\* A filled object was announced again and is empty.
C1_Witness ==
    /\ pc = "run"
    /\ \E n \in Names :
          /\ Len(statements) >= 2
          /\ Announces(statements[Len(statements)], n)
          /\ objects[n] = None
          /\ \E i \in 1..(Len(statements) - 1) :
                /\ IsAsciiDirective(statements[i]) \/ IsWordDirective(statements[i])
                /\ LabelBefore(i) = Some(n)
                /\ AnnouncesBefore(n, i) # {}

----------------------------------------------------------------------------
(* C2: .word fills an object once. *)

\* C2, as stated: in every run that returns normally no object had two .word
\* directives processed while the current label named it.
C2_WordAtMostOnce ==
    pc = "returned" =>
        \A n \in Names : \A i, j \in 1..Len(statements) :
            ~(i < j /\ WordOn(i, n) /\ WordOn(j, n))

\* C2, amended: if two .word directives are each processed while the current
\* label names the same announced object and the object is not announced
\* again between them, the run aborts at the second one on the assertion of
\* line 156.
C2_WordTwiceAborts ==
    \A n \in Names : \A i, j \in 1..Len(statements) :
        ( /\ i < j
          /\ WordOn(i, n)
          /\ WordOn(j, n)
          /\ \A k \in (i + 1)..(j - 1) : ~Announces(statements[k], n) )
        => /\ pc = "panicked"
           /\ panic = Some([kind |-> "assert_entry_is_none", line |-> 156])
           /\ j = Len(statements)

\* The second of two .word directives on one object aborted the run.
C2_Witness ==
    /\ pc = "panicked"
    /\ \E n \in Names : \E i, j \in 1..Len(statements) :
          /\ i < j
          /\ WordOn(i, n)
          /\ WordOn(j, n)
          /\ \A k \in (i + 1)..(j - 1) : ~Announces(statements[k], n)

----------------------------------------------------------------------------
(* C3: a string directive whose label names no object. *)

\* C3, as stated: an .ascii/.asciz directive with one string literal that is
\* processed when the current label names no registered object, or when no
\* Label has been seen, does not abort and leaves the map and the current
\* label unchanged.
C3_AsciiWithoutObject ==
    [][( /\ Step
         /\ IsAsciiDirective(Taken)
         /\ (~current_label.some \/ current_label.v \notin DOMAIN objects) )
         => /\ pc' = "run"
            /\ objects' = objects
            /\ current_label' = current_label]_vars

----------------------------------------------------------------------------
(* C4: the bytes of .word. *)

\* b1 .. b4 are the low 32 bits of n, least significant byte first.
IsLittleEndian32(b1, b2, b3, b4, n) ==
    /\ {b1, b2, b3, b4} \subseteq 0..255
    /\ b1 + 256 * b2 = n.lo
    /\ (b3 + 256 * b4 - n.hi) % 65536 = 0

\* bytes is what .word with the arguments args encodes.
IsEncoding(bytes, args) ==
    /\ Len(bytes) = 4 * Len(args)
    /\ \A j \in 1..Len(args) :
          LET at(k) == bytes[4 * (j - 1) + k]
          IN  IF args[j].tag = "Constant" /\ args[j].c.ctag = "Number"
              THEN IsLittleEndian32(at(1), at(2), at(3), at(4), args[j].c.n)
              ELSE <<at(1), at(2), at(3), at(4)>> = <<0, 0, 0, 0>>

\* C4: a .word directive with k arguments processed when the current label
\* names a registered object without content sets the content to 4 * k bytes:
\* the low 32 bits of every Number, least significant byte first, and four
\* zero bytes for every other argument; the run does not abort.
C4_WordEncoding ==
    [][( /\ Step
         /\ IsWordDirective(Taken)
         /\ current_label.some
         /\ current_label.v \in DOMAIN objects
         /\ objects[current_label.v] = None )
         => /\ pc' = "run"
            /\ objects'[current_label.v].some
            /\ IsEncoding(objects'[current_label.v].v, Taken.args)
            /\ \A k \in DOMAIN objects \ {current_label.v} :
                  objects'[k] = objects[k]]_vars

\* `.word 0x01020304, foo` has filled X with 04 03 02 01 00 00 00 00.
C4_Witness ==
    /\ pc = "run"
    /\ Len(statements) = 3
    /\ statements[3] = Directive(".word", <<Constant(Number(I64(258, 772))), Symbol("foo")>>)
    /\ "X" \in DOMAIN objects
    /\ objects["X"] = Some(<<4, 3, 2, 1, 0, 0, 0, 0>>)

----------------------------------------------------------------------------
(* C5: the bytes of .ascii/.asciz. *)

\* C5, as stated: with no .word directive, the final content of an object is
\* the concatenation in source order of the strings of the .ascii/.asciz
\* directives processed after the object was announced and while the current
\* label is the object.
C5_ConcatSinceAnnounced ==
    (pc = "returned" /\ NoWord) =>
        \A n \in DOMAIN returned.v :
            returned.v[n] = ConcatData(AsciiAfter(n, FirstAnnounce(n)))

\* C5, amended: with no .word directive, the content of a registered object
\* is the concatenation in source order of the strings of the .ascii/.asciz
\* directives processed after the most recent announcement of the object and
\* while the current label is the object (no content when there is none),
\* during the fold and in the map returned.
C5_ConcatSinceLastAnnounced ==
    (pc \in {"run", "returned"} /\ NoWord) =>
        \A n \in DOMAIN objects :
            LET idx == AsciiAfter(n, LastAnnounce(n))
            IN  /\ objects[n] = IF idx = {} THEN None ELSE Some(ConcatData(idx))
                /\ pc = "returned" => returned.v[n] = ConcatData(idx)

\* X was filled by two string directives, "AB" then "C", and returned.
C5_Witness ==
    /\ pc = "returned"
    /\ NoWord
    /\ "X" \in DOMAIN returned.v
    /\ returned.v["X"] = <<65, 66, 67>>
    /\ Cardinality(AsciiAfter("X", LastAnnounce("X"))) = 2

----------------------------------------------------------------------------
(* C6: finalization. *)

\* The run ended at lines 182-190.
Finalized ==
    \/ pc = "returned"
    \/ pc = "panicked" /\ panic.v.kind = "object_not_found"

\* C6: the run returns normally exactly when the fold completes and every
\* announced name holds content; the keys of the result are the announced
\* names; otherwise the run aborts naming an announced object without
\* content.
C6_Finalization ==
    /\ Finalized =>
          (pc = "returned" <=>
              \A n \in Announced : n \in DOMAIN objects /\ objects[n].some)
    /\ pc = "returned" =>
          /\ DOMAIN returned.v = Announced
          /\ \A n \in Announced : returned.v[n] = objects[n].v
    /\ (pc = "panicked" /\ panic.v.kind = "object_not_found") =>
          /\ panic.v.k \in Announced
          /\ objects[panic.v.k] = None

\* X holds content, Y was announced and never filled: the run aborted
\* naming Y.
C6_Witness ==
    /\ pc = "panicked"
    /\ panic.v.kind = "object_not_found"
    /\ panic.v.k = "Y"
    /\ "X" \in DOMAIN objects
    /\ objects["X"].some

----------------------------------------------------------------------------
(* C7: the references of instructions. *)

\* The names of RefStmts.
RefNames == {"foo", "bar", "hi", "lo", "off", "jal", "lui", "la", ".word"}

\* arg is Symbol(nm), or a Constant or RegOffset of %hi(nm) or %lo(nm).
Mentions(arg, nm) ==
    \/ arg = Symbol(nm)
    \/ /\ arg.tag \in {"Constant", "RegOffset"}
       /\ arg.c \in {HiDataRef(nm), LoDataRef(nm)}

NoInstructionDifference ==
    \A i \in 1..Len(statements) :
        statements[i].stag = "Instruction" =>
            \A j \in 1..Len(statements[i].args) :
                statements[i].args[j].tag # "Difference"

\* C7: when no Instruction has a Difference argument, the run does not abort
\* and returns exactly the names that Instruction arguments mention; Labels
\* and Directive operands contribute nothing.
C7_References ==
    /\ NoInstructionDifference => pc # "panicked"
    /\ (pc = "returned" /\ NoInstructionDifference) =>
          returned.v =
              {nm \in RefNames :
                  \E i \in 1..Len(statements) :
                      /\ statements[i].stag = "Instruction"
                      /\ \E j \in 1..Len(statements[i].args) :
                            Mentions(statements[i].args[j], nm)}

\* `.word foo` then `jal bar` gave {bar}.
C7_Witness ==
    /\ pc = "returned"
    /\ statements = <<Directive(".word", <<Symbol("foo")>>),
                      Instruction("jal", <<Symbol("bar")>>)>>
    /\ returned.v = {"bar"}

----------------------------------------------------------------------------
(* C8 and C9: octal escapes. *)

IsOctalDigit(c) == c \in 48..55

\* The loop is at a backslash followed by three octal digits, the first
\* at most `top`.
AtOctalEscape(top) ==
    /\ pc = "loop"
    /\ Len(chars) >= 4
    /\ chars[1] = Backslash
    /\ chars[2] \in 48..(48 + top)
    /\ IsOctalDigit(chars[3])
    /\ IsOctalDigit(chars[4])

\* d1 * 64 + d2 * 8 + d3 for the escape the loop is at.
OctalNumber == (chars[2] - 48) * 64 + (chars[3] - 48) * 8 + (chars[4] - 48)

\* The iteration took the four characters and pushed the byte b.
EscapeGives(b) ==
    /\ pc' = "loop"
    /\ chars' = SubSeq(chars, 5, Len(chars))
    /\ result' = Append(result, b)

\* C8, as stated: a backslash followed by octal digits d1 d2 d3 is consumed
\* as one escape and contributes the byte d1 * 64 + d2 * 8 + d3 without
\* aborting.
C8_OctalAnyDigits == [][AtOctalEscape(7) => EscapeGives(OctalNumber)]_vars

\* C8, amended: this holds for d1 from 0 to 3, where the number fits a byte;
\* for d1 from 4 to 7 the u8 arithmetic of line 206 overflows: a build with
\* overflow checks aborts and one without gives the number modulo 256.
C8_OctalUpTo377 ==
    [][/\ AtOctalEscape(3) => EscapeGives(OctalNumber)
       /\ (AtOctalEscape(7) /\ ~AtOctalEscape(3)) =>
             IF overflow_checks
             THEN pc' = "panicked" /\ panic' = Some([kind |-> "overflow", line |-> 206])
             ELSE EscapeGives(OctalNumber % 256)]_vars

\* "\347" was decoded to the byte 231 by a build with overflow checks.
C8_Witness ==
    /\ overflow_checks
    /\ pc = "loop"
    /\ s = <<Quote, Backslash, 51, 52, 55, Quote>>
    /\ chars = <<>>
    /\ result = <<231>>

\* C9, as stated: when a backslash is followed by a decimal digit and the
\* three characters of the escape are not all present or not all octal
\* digits, the call fails.
C9_MalformedOctalFails ==
    [][( /\ pc = "loop"
         /\ Len(chars) >= 2
         /\ chars[1] = Backslash
         /\ IsAsciiDigit(chars[2])
         /\ ~(Len(chars) >= 4 /\ \A k \in 2..4 : IsOctalDigit(chars[k])) )
         => pc' = "panicked"]_vars

----------------------------------------------------------------------------
(* C10: the order of the two fill directives on one object. *)

\* n holds content that a .word directive wrote, or that an .ascii/.asciz
\* directive wrote, since it was last announced.
HoldsWordContent(n) ==
    /\ objects[n].some
    /\ \E i \in (LastAnnounce(n) + 1)..Len(statements) : WordOn(i, n)
HoldsAsciiContent(n) ==
    /\ objects[n].some
    /\ AsciiAfter(n, LastAnnounce(n)) # {}

\* C10: an .ascii/.asciz directive processed when the object of the current
\* label holds content written by .word does not abort and appends its bytes
\* after that content; a .word directive processed when the object holds
\* content written by .ascii/.asciz aborts the run.
C10_OrderSensitive ==
    [][\A n \in Names :
          (Step /\ current_label = Some(n) /\ n \in DOMAIN objects) =>
              /\ (IsAsciiDirective(Taken) /\ HoldsWordContent(n)) =>
                    /\ pc' = "run"
                    /\ objects' = [objects EXCEPT ![n] =
                                      Some(objects[n].v \o Taken.args[1].lit)]
              /\ (IsWordDirective(Taken) /\ HoldsAsciiContent(n)) =>
                    /\ pc' = "panicked"
                    /\ objects' = objects]_vars

\* X was filled by `.word 1`, extended by `.ascii "AB"`, and a second .word
\* aborted the run.
C10_Witness ==
    /\ pc = "panicked"
    /\ Len(statements) = 5
    /\ WordOn(3, "X")
    /\ IsAsciiDirective(statements[4])
    /\ WordOn(5, "X")
    /\ objects["X"] = Some(<<1, 0, 0, 0, 65, 66>>)

============================================================================
